---- MODULE Spec2Model ----
(***************************************************************************)
(* Model of Rust-SDK/sdk.rs: the Zellular value built by Zellular::new,    *)
(* its BLS quorum check verify_signature, and the finality puller          *)
(* get_finalized.                                                          *)
(*                                                                         *)
(* Groups.  G1, G2 and Gt of bls12_381 are modelled as the additive group  *)
(* of integers modulo GroupOrder, with generator 1 and the bilinear map    *)
(* pairing(a, b) = a * b.  The identity of each group is 0.                *)
(*                                                                         *)
(* Stakes.  Operator.stake is an f64.  Raw stakes are counted in units of  *)
(* 10^18 / FullUnit, so a normalised stake is k / FullUnit with            *)
(* 0 <= k <= FullUnit; every float of the quorum test is then a ratio of   *)
(* small integers and the test is decided exactly by cross-multiplying.    *)
(*                                                                         *)
(* Strings.  Batch contents and hashes are TLA+ strings; + on Rust strings *)
(* is \o.  hash is SHA-256 rendered in hex, modelled as a collision-free   *)
(* symbolic digest "h(" input ")".                                         *)
(*                                                                         *)
(* Indices.  index is an i32 and finalized["index"] an i64.  The i64 is    *)
(* kept as hi * 2^32 + lo, its cast to i32 being lo.  The i32 range is     *)
(* scaled to I32Min..I32Max, wider than any log of a node, and index += 1  *)
(* at I32Max panics or wraps as the build has overflow checks or not.      *)
(***************************************************************************)
EXTENDS Integers, Sequences, FiniteSets, TLC

\* ------------------------------------------------------------------ bounds
MaxOperators == 4       \* operators in a directory snapshot
MaxNonsigners == 2      \* length of a non-signer list
LogLen == 2             \* batches the sequencer holds for an app
MaxBatch == 2           \* batches in one response
MaxAfter == 1           \* largest `after` argument
MaxCalls == 3           \* calls of get_finalized in one behaviour

\* 10f64.powi(18), the raw stake of one full unit, in model units
FullUnit == 2

VARIABLES
    \* struct Zellular
    operators,              \* id -> Operator
    aggregated_public_key,
    threshold_percent,
    \* one call of verify_signature
    vpc,                    \* "idle", "stakes", "quorum", "keys", "pairing", "done"
    message, signature_hex, nonsigners,     \* its arguments
    total_stake, nonsigners_stake, public_key,  \* its locals
    verdict,                \* "none", "true", "false", "panic"
    subtractions, pairings, \* group operations performed by the call so far
    \* the sequencer node and the calls of get_finalized
    log,                    \* app -> its batches; the batch of index i is log[app][i + 1]
    pointer,                \* the finality pointer of a node that holds one
    overflow_checks,        \* the build: TRUE panics on integer overflow, FALSE wraps
    calls                   \* started call -> its arguments, locals and outcome

zvars == <<operators, aggregated_public_key, threshold_percent>>
vvars == <<vpc, message, signature_hex, nonsigners, total_stake,
           nonsigners_stake, public_key, verdict, subtractions, pairings>>
\* what no call writes: the node and the build
evars == <<log, pointer, overflow_checks>>
pvars == <<evars, calls>>
vars == <<zvars, vvars, pvars>>

\* ------------------------------------------------------------ group model
\* the prime order of the groups of bls12_381, in the model
GroupOrder == 3
G2Identity == 0
GAdd(a, b) == (a + b) % GroupOrder
GSub(a, b) == (a + GroupOrder - b) % GroupOrder
Pairing(a, b) == (a * b) % GroupOrder
IsZero(t) == t = 0

\* ----------------------------------------------------- operator directory
OperatorIds == 1..MaxOperators
\* an id no snapshot holds
NonsignerIds == 1..(MaxOperators + 1)
\* nothing, half a unit, a full unit, and more than a full unit
RawStakes == {0, 1, FullUnit, FullUnit + 1}
Thresholds == {50, 67}
Messages == {"m1", "m2"}
Signatures == 0..(GroupOrder - 1)

\* the G2 point the directory's pubkeyG2_X / pubkeyG2_Y coordinates encode
PubkeyG2Coord(id) == (id % (GroupOrder - 1)) + 1

\* the directory's answer: operators 1..n with their raw stakes
Snapshots == UNION {[1..n -> RawStakes] : n \in 0..MaxOperators}

NormalizeStake(raw) == IF raw < FullUnit THEN raw ELSE FullUnit

get_operators(snapshot) ==
    [id \in DOMAIN snapshot |->
        [id |-> id,
         stake |-> NormalizeStake(snapshot[id]),
         public_key_g2 |-> G2Identity]]

RECURSIVE SumOver(_, _)
\* the sum of f over the finite set S
SumOver(f, S) ==
    IF S = {} THEN 0
    ELSE LET x == CHOOSE y \in S : TRUE IN f[x] + SumOver(f, S \ {x})

RECURSIVE AggregateKeysFromGenerator(_, _)
\* the aggregate seeded with a point other than the identity
AggregateKeysFromGenerator(ops, S) ==
    IF S = {} THEN 1
    ELSE LET x == CHOOSE y \in S : TRUE
         IN GAdd(AggregateKeysFromGenerator(ops, S \ {x}), ops[x].public_key_g2)

RECURSIVE AggregateKeys(_, _)
AggregateKeys(ops, S) ==
    IF S = {} THEN G2Identity
    ELSE LET x == CHOOSE y \in S : TRUE
         IN GAdd(AggregateKeys(ops, S \ {x}), ops[x].public_key_g2)

\* ------------------------------------------------------- verify_signature
NonsignerLists == UNION {[1..n -> NonsignerIds] : n \in 0..MaxNonsigners}

TotalStake(ops) == SumOver([id \in DOMAIN ops |-> ops[id].stake], DOMAIN ops)

RECURSIVE NonsignersStake(_, _)
\* nonsigners.iter().map(..).sum(): one term per list entry
NonsignersStake(ops, ns) ==
    IF ns = <<>> THEN 0
    ELSE ops[Head(ns)].stake + NonsignersStake(ops, Tail(ns))

UnknownNonsigner(ops, ns) == \E i \in 1..Len(ns) : ns[i] \notin DOMAIN ops

\* the quorum test with the threshold taken for the tolerated non-signer share
QuorumExceededAgainstThreshold(ns_stake, tot_stake, thr) ==
    IF tot_stake = 0 THEN ns_stake > 0
    ELSE 100 * ns_stake > thr * tot_stake

\* (100.0 * nonsigners_stake / total_stake) > (100.0 - threshold_percent)
\* in f64: 0/0 is NaN and compares false, x/0 with x > 0 is +inf
QuorumExceeded(ns_stake, tot_stake, thr) ==
    IF tot_stake = 0 THEN ns_stake > 0
    ELSE 100 * ns_stake > (100 - thr) * tot_stake

RECURSIVE SubtractKeys(_, _, _)
SubtractKeys(key, ops, ns) ==
    IF ns = <<>> THEN key
    ELSE SubtractKeys(GSub(key, ops[Head(ns)].public_key_g2), ops, Tail(ns))

\* let signature = G2Affine::identity(): the point the pairing is evaluated on
DecodedSignature(sig_hex) == G2Identity

\* hash(input): SHA-256 in hex, a collision-free symbolic digest
hash(input) == "h(" \o input \o ")"

\* message_hash is computed and not used
PairingVerdict(key, m, sig_hex) ==
    LET message_hash == hash(m)
        sig == DecodedSignature(sig_hex)
    IN IF IsZero(Pairing(key, sig)) THEN "true" ELSE "false"

\* the outcome of one call, as a function of self and the arguments
verify_signature(ops, agg, thr, m, sig_hex, ns) ==
    IF UnknownNonsigner(ops, ns) THEN "panic"
    ELSE IF QuorumExceeded(NonsignersStake(ops, ns), TotalStake(ops), thr)
         THEN "false"
         ELSE PairingVerdict(SubtractKeys(agg, ops, ns), m, sig_hex)

VerifyCall(m, sig, ns) ==
    /\ vpc = "idle"
    /\ vpc' = "stakes"
    /\ message' = m
    /\ signature_hex' = sig
    /\ nonsigners' = ns
    /\ total_stake' = 0
    /\ nonsigners_stake' = 0
    /\ public_key' = G2Identity
    /\ verdict' = "none"
    /\ subtractions' = 0
    /\ pairings' = 0
    /\ UNCHANGED <<zvars, pvars>>

\* lines 112-113 with an unknown id answered by false
SumStakesUnknownIsFalse ==
    /\ vpc = "stakes"
    /\ total_stake' = TotalStake(operators)
    /\ IF UnknownNonsigner(operators, nonsigners)
       THEN /\ vpc' = "done"
            /\ verdict' = "false"
            /\ UNCHANGED nonsigners_stake
       ELSE /\ vpc' = "quorum"
            /\ nonsigners_stake' = NonsignersStake(operators, nonsigners)
            /\ UNCHANGED verdict
    /\ UNCHANGED <<message, signature_hex, nonsigners, public_key,
                   subtractions, pairings>>
    /\ UNCHANGED <<zvars, pvars>>

\* lines 112-113: the two sums; get(id).unwrap() panics on an unknown id
SumStakes ==
    /\ vpc = "stakes"
    /\ total_stake' = TotalStake(operators)
    /\ IF UnknownNonsigner(operators, nonsigners)
       THEN /\ vpc' = "done"
            /\ verdict' = "panic"
            /\ UNCHANGED nonsigners_stake
       ELSE /\ vpc' = "quorum"
            /\ nonsigners_stake' = NonsignersStake(operators, nonsigners)
            /\ UNCHANGED verdict
    /\ UNCHANGED <<message, signature_hex, nonsigners, public_key,
                   subtractions, pairings>>
    /\ UNCHANGED <<zvars, pvars>>

QuorumCheck ==
    /\ vpc = "quorum"
    /\ IF QuorumExceeded(nonsigners_stake, total_stake, threshold_percent)
       THEN /\ vpc' = "done"
            /\ verdict' = "false"
       ELSE /\ vpc' = "keys"
            /\ UNCHANGED verdict
    /\ UNCHANGED <<message, signature_hex, nonsigners, total_stake,
                   nonsigners_stake, public_key, subtractions, pairings>>
    /\ UNCHANGED <<zvars, pvars>>

EffectiveKey ==
    /\ vpc = "keys"
    /\ public_key' = SubtractKeys(aggregated_public_key, operators, nonsigners)
    /\ subtractions' = Len(nonsigners)
    /\ vpc' = "pairing"
    /\ UNCHANGED <<message, signature_hex, nonsigners, total_stake,
                   nonsigners_stake, verdict, pairings>>
    /\ UNCHANGED <<zvars, pvars>>

PairingCheck ==
    /\ vpc = "pairing"
    /\ verdict' = PairingVerdict(public_key, message, signature_hex)
    /\ pairings' = 1
    /\ vpc' = "done"
    /\ UNCHANGED <<message, signature_hex, nonsigners, total_stake,
                   nonsigners_stake, public_key, subtractions>>
    /\ UNCHANGED <<zvars, pvars>>

\* ---------------------------------------------------------- get_finalized
Apps == {"app1", "app2"}
Contents == {"a", "b"}
CallIds == 1..MaxCalls
Afters == 0..MaxAfter

\* Option<String>
None == <<>>
Some(x) == <<x>>
unwrap_or_empty(opt) == IF opt = None THEN "" ELSE opt[1]

\* resp["data"]["finalized"]: null, an object without an integer index, or
\* {index}.  The index is an i64, held as hi * 2^32 + lo with lo in the range
\* of i32.
FinNull == [kind |-> "null", hi |-> 0, lo |-> 0]
FinMalformed == [kind |-> "malformed", hi |-> 0, lo |-> 0]
FinIndex(hi, lo) == [kind |-> "index", hi |-> hi, lo |-> lo]
Finalizeds ==
    {FinNull, FinMalformed} \cup {FinIndex(hi, lo) : hi \in {0, 1}, lo \in 0..(LogLen - 1)}

\* i32, scaled: wide enough for every index of a node's log, so that index
\* overflows only against a node whose chain is longer than any log here
I32Max == LogLen + MaxAfter + 1
I32Min == -I32Max - 1

\* finalized["index"].as_i64().unwrap() as i32: the low 32 bits
as_i32(fin) == fin.lo

\* the i64 the node sent: hi counts 2^32, the size of i32, and lo is below 2^31
FinValue(fin) == fin.hi * (I32Max - I32Min + 1) + fin.lo

\* the server's answers to a poll
NoData == [data |-> FALSE, batches |-> <<>>, finalized |-> FinNull]
Data(batches, fin) == [data |-> TRUE, batches |-> batches, finalized |-> fin]

Min(a, b) == IF a < b THEN a ELSE b

\* the batches the node holds after index i, at most n of them
BatchesAfter(app, i, n) ==
    SubSeq(log[app], i + 2, Min(Len(log[app]), i + 1 + n))

\* what the node may answer to .../batches/finalized?after=i
Responses(app, i) ==
    {NoData} \cup
    {Data(BatchesAfter(app, i, n), fin) : n \in 0..MaxBatch, fin \in Finalizeds}

\* lines 132-134: the call as it enters the loop.  resp is the response in
\* hand and consumed the number of its batches the for loop has taken.
\* the loop entered at `after` whether or not a hash is supplied
EnterCallAtAfter(app, after, chaining) ==
    [pc |-> "polling", app |-> app, after |-> after, chaining_hash |-> chaining,
     index |-> after,
     res |-> <<>>, resp |-> NoData, consumed |-> 0,
     ret_hash |-> "", ret_res |-> <<>>]

EnterCall(app, after, chaining) ==
    [pc |-> "polling", app |-> app, after |-> after, chaining_hash |-> chaining,
     index |-> IF chaining # None THEN after ELSE after - 1,
     res |-> <<>>, resp |-> NoData, consumed |-> 0,
     ret_hash |-> "", ret_res |-> <<>>]

\* the hash taken over the first batch of the response in hand
ChainingHashOfResponse(c, batch) ==
    unwrap_or_empty(c.chaining_hash) \o hash(c.resp.batches[1])

\* the hash line 149 computes for a batch
ChainingHash(c, batch) == unwrap_or_empty(c.chaining_hash) \o hash(batch)

RECURSIVE ForBatches(_, _)
\* lines 147-155: the for loop over resp's batches, from batch number k on
ForBatches(c, k) ==
    IF k > Len(c.resp.batches) THEN c
    ELSE LET batch == c.resp.batches[k]
             fin == c.resp.finalized
             \* index += 1 at i32::MAX: a panic, or the wrap to i32::MIN
             c1 == [c EXCEPT !.index = IF c.index = I32Max THEN I32Min
                                       ELSE c.index + 1,
                             !.res = Append(c.res, batch),
                             !.consumed = k]
         IN IF c.index = I32Max /\ overflow_checks
            THEN [c EXCEPT !.pc = "panicked"]
            ELSE IF fin.kind = "null" THEN ForBatches(c1, k + 1)
            ELSE IF fin.kind = "malformed" THEN [c1 EXCEPT !.pc = "panicked"]
            ELSE IF c1.index = as_i32(fin)
                 THEN [c1 EXCEPT !.pc = "returned",
                                 !.ret_hash = ChainingHash(c, batch),
                                 !.ret_res = c1.res]
                 ELSE ForBatches(c1, k + 1)

\* the loop with a no-data response counted as a batch
IterationNoDataAdvances(c, r) ==
    IF ~r.data THEN [c EXCEPT !.resp = r, !.consumed = 0, !.index = c.index + 1]
    ELSE ForBatches([c EXCEPT !.resp = r, !.consumed = 0], 1)

\* one iteration of the loop, lines 137-155, on the response r
Iteration(c, r) ==
    IF ~r.data THEN [c EXCEPT !.resp = r, !.consumed = 0]
    ELSE ForBatches([c EXCEPT !.resp = r, !.consumed = 0], 1)

GetFinalized(id, app, after, chaining) ==
    /\ id \notin DOMAIN calls
    /\ calls' = [x \in DOMAIN calls \cup {id} |->
                    IF x = id THEN EnterCall(app, after, chaining) ELSE calls[x]]
    /\ UNCHANGED <<evars, zvars, vvars>>

\* the loop with index kept in a field every call of the value shares
PollSharedIndex(id, r) ==
    /\ id \in DOMAIN calls
    /\ calls[id].pc = "polling"
    /\ calls' = [x \in DOMAIN calls |->
                    IF x = id THEN Iteration(calls[id], r)
                    ELSE [calls[x] EXCEPT !.index = Iteration(calls[id], r).index]]
    /\ UNCHANGED <<evars, zvars, vvars>>

Poll(id, r) ==
    /\ id \in DOMAIN calls
    /\ calls[id].pc = "polling"
    /\ calls' = [calls EXCEPT ![id] = Iteration(calls[id], r)]
    /\ UNCHANGED <<evars, zvars, vvars>>

\* send() or json() fails: the ? of line 138
\* a failed request answered with what the call has built so far
PollFailsReturnsPartial(id) ==
    /\ id \in DOMAIN calls
    /\ calls[id].pc = "polling"
    /\ calls' = [calls EXCEPT ![id].pc = "error",
                              ![id].ret_hash = unwrap_or_empty(calls[id].chaining_hash),
                              ![id].ret_res = calls[id].res]
    /\ UNCHANGED <<evars, zvars, vvars>>

PollFails(id) ==
    /\ id \in DOMAIN calls
    /\ calls[id].pc = "polling"
    /\ calls' = [calls EXCEPT ![id].pc = "error"]
    /\ UNCHANGED <<evars, zvars, vvars>>

\* ------------------------------------------------------------------ specs
\* Zellular::new, lines 91-108
InitZellular(snapshot, thr) ==
    /\ operators = get_operators(snapshot)
    /\ aggregated_public_key =
           AggregateKeys(get_operators(snapshot), DOMAIN snapshot)
    /\ threshold_percent = thr

InitVerify ==
    /\ vpc = "idle"
    /\ message = "m1"
    /\ signature_hex = 0
    /\ nonsigners = <<>>
    /\ total_stake = 0
    /\ nonsigners_stake = 0
    /\ public_key = G2Identity
    /\ verdict = "none"
    /\ subtractions = 0
    /\ pairings = 0

Logs == [Apps -> [1..LogLen -> Contents]]

InitCalls == calls = <<>>

\* a node that holds no pointer of its own, every response carrying any, and
\* the build with overflow checks: index stays below I32Max on a node's log,
\* where the two builds do the same
InitNode ==
    /\ pointer = FinNull
    /\ overflow_checks = TRUE

\* main, line 168: the directory's operators, each with a full unit, and 67.0
MainSnapshot == [id \in OperatorIds |-> FullUnit]

\* verify_signature on every registry
Init ==
    /\ \E snapshot \in Snapshots, thr \in Thresholds : InitZellular(snapshot, thr)
    /\ InitVerify
    /\ log = [app \in Apps |-> <<>>]
    /\ InitNode
    /\ InitCalls

Next ==
    \/ /\ vpc = "idle"
       /\ \E m \in Messages, sig \in Signatures, ns \in NonsignerLists :
              VerifyCall(m, sig, ns)
    \/ SumStakes
    \/ QuorumCheck
    \/ EffectiveKey
    \/ PairingCheck

Spec == Init /\ [][Next]_vars

\* one call of get_finalized against every sequencer log
InitPull ==
    /\ InitZellular(MainSnapshot, 67)
    /\ InitVerify
    /\ log \in Logs
    /\ InitNode
    /\ InitCalls

\* a hash an earlier call may have returned
ResumeHashes == {Some(hash(x)) : x \in Contents}

NextPull ==
    \/ \E app \in Apps, after \in Afters, ch \in {None} \cup ResumeHashes :
           GetFinalized(1, app, after, ch)
    \/ /\ 1 \in DOMAIN calls
       /\ \E r \in Responses(calls[1].app, calls[1].index) : Poll(1, r)
    \/ PollFails(1)

SpecPull == InitPull /\ [][NextPull]_vars

\* two calls of get_finalized on one Zellular value, each a future polled in
\* turn: a step is one call's round trip, the calls' steps in any order
Concurrent == {1, 2}

\* the node serving one log under every app name and holding one finality
\* pointer, within i32, that every data response carries
InitConc ==
    /\ InitZellular(MainSnapshot, 67)
    /\ InitVerify
    /\ log \in {l \in Logs : \A app \in Apps : l[app] = l["app1"]}
    /\ pointer \in {FinIndex(0, lo) : lo \in 0..(LogLen - 1)}
    /\ overflow_checks = TRUE
    /\ InitCalls

ConcResponses(app, i) ==
    {NoData} \cup {Data(BatchesAfter(app, i, n), pointer) : n \in 0..MaxBatch}

NextConc ==
    \/ \E id \in Concurrent, app \in Apps, after \in Afters,
          ch \in {None} \cup ResumeHashes :
           /\ \A x \in DOMAIN calls : calls[x].app = app
           /\ GetFinalized(id, app, after, ch)
    \/ \E id \in DOMAIN calls :
           \E r \in ConcResponses(calls[id].app, calls[id].index) : Poll(id, r)
    \/ \E id \in Concurrent : PollFails(id)

SpecConc == InitConc /\ [][NextConc]_vars

\* one call against a node that always has a next batch: its chain for an
\* app is the log repeated without end, and every data response carries the
\* node's one finality pointer
EndlessAfter(app, i, n) == [k \in 1..n |-> log[app][((i + k) % LogLen) + 1]]

LiveResponses(app, i) ==
    {NoData} \cup {Data(EndlessAfter(app, i, n), pointer) : n \in 1..MaxBatch}

Pointers == {FinIndex(hi, lo) : hi \in {0, 1}, lo \in 0..(LogLen - 1)}

InitLive ==
    /\ InitZellular(MainSnapshot, 67)
    /\ InitVerify
    /\ log \in {l \in Logs : \A app \in Apps : l[app] = l["app1"]}
    /\ pointer \in Pointers
    /\ overflow_checks \in BOOLEAN
    /\ InitCalls

\* the call starts at or before the node's pointer
StartLive ==
    \E app \in Apps, after \in Afters, ch \in {None} \cup ResumeHashes :
        /\ FinValue(pointer) >= (IF ch = None THEN after ELSE after + 1)
        /\ GetFinalized(1, app, after, ch)

DataPoll ==
    /\ 1 \in DOMAIN calls
    /\ \E r \in LiveResponses(calls[1].app, calls[1].index) : r.data /\ Poll(1, r)

NoDataPoll ==
    /\ 1 \in DOMAIN calls
    /\ Poll(1, NoData)

NextLive == StartLive \/ DataPoll \/ NoDataPoll

\* the node answers with data in the end: no-data answers are finitely many
SpecLive == InitLive /\ [][NextLive]_vars /\ WF_vars(DataPoll)

\* calls of get_finalized one after the other, a later one resuming from what
\* an earlier one returned
Returned == {id \in DOMAIN calls : calls[id].pc = "returned"}
NoneRunning == \A id \in DOMAIN calls : calls[id].pc # "polling"

\* the node sends data, and a finality pointer, when it sends one, that is an
\* index within i32
WellFormed(r) ==
    /\ r.data
    /\ r.finalized.kind # "malformed"
    /\ r.finalized.hi = 0

\* a fresh start, or the resumption of a call that returned
CallArguments ==
    {<<after, None>> : after \in Afters}
        \cup {<<calls[b].index, Some(calls[b].ret_hash)>> : b \in Returned}

NextRuns ==
    \/ \E id \in CallIds, app \in Apps, args \in CallArguments :
           /\ NoneRunning
           /\ 1..(id - 1) \subseteq DOMAIN calls
           /\ GetFinalized(id, app, args[1], args[2])
    \/ \E id \in DOMAIN calls :
           \E r \in Responses(calls[id].app, calls[id].index) :
               WellFormed(r) /\ Poll(id, r)

SpecRuns == InitPull /\ [][NextRuns]_vars

\* ----------------------------------------------------------------- claims
\* What section 4.2 of the specification asks of the pairing check.  The
\* signature argument is the G1 point signature_hex decodes to, and 1 is the
\* generator of the model group G2.
HashToCurveG1(m) == IF m = "m1" THEN 1 ELSE 2
PairingEquality(sig, m, key) ==
    Pairing(sig, 1) = Pairing(HashToCurveG1(m), key)

\* the ids a non-signer list names
Named(ns) == {ns[i] : i \in 1..Len(ns)}
StakeOf(ops, S) == SumOver([id \in DOMAIN ops |-> ops[id].stake], S)
AllKnown == Named(nonsigners) \subseteq DOMAIN operators

\* the aggregate signature the operators of S produce over m: operator id
\* holds the secret key whose public key is PubkeyG2Coord(id)
HonestSignature(S, m) ==
    (SumOver([id \in S |-> PubkeyG2Coord(id)], S) * HashToCurveG1(m)) % GroupOrder

HasStake == StakeOf(operators, DOMAIN operators) > 0

\* C1: verify_signature returns true only if
\* pairing(signature, generatorG2) = pairing(hashToCurveG1(message), effectiveKey),
\* effectiveKey being the aggregated key minus the keys of the non-signers
\* (stated for the registries that hold stake).
C1_TrueOnlyIfPairingHolds ==
    (vpc = "done" /\ HasStake /\ verdict = "true") =>
        PairingEquality(signature_hex, message,
            SubtractKeys(aggregated_public_key, operators, nonsigners))

\* C3: whenever 100 * nonsignerStake / totalStake > 100 - thresholdPercent the
\* call returns false, and it does so before any key is subtracted and before
\* any pairing is evaluated.
C3_QuorumRejectsFirst ==
    /\ (vpc \in {"stakes", "quorum"}) => (subtractions = 0 /\ pairings = 0)
    /\ ( /\ vpc = "done"
         /\ AllKnown
         /\ HasStake
         /\ 100 * StakeOf(operators, Named(nonsigners))
                > (100 - threshold_percent) * StakeOf(operators, DOMAIN operators) )
       => (verdict = "false" /\ subtractions = 0 /\ pairings = 0)

C3_Witness ==
    /\ vpc = "done"
    /\ AllKnown
    /\ Cardinality(DOMAIN operators) = 4
    /\ Len(nonsigners) = 2
    /\ 100 * StakeOf(operators, Named(nonsigners))
           > (100 - threshold_percent) * StakeOf(operators, DOMAIN operators)
    /\ verdict = "false"

\* C7: a call whose non-signer list names an id the registry does not hold
\* ends in the failure of line 113 and in no boolean; no other call ends so.
C7_UnknownOperatorFails ==
    vpc = "done" => (verdict = "panic" <=> ~AllKnown)

C7_Witness ==
    /\ vpc = "done"
    /\ ~AllKnown
    /\ Len(nonsigners) = 2
    /\ nonsigners[1] \in DOMAIN operators
    /\ verdict = "panic"

\* C8: if the call returns true on message m, the same registry, signature and
\* non-signer list are rejected on every other message (stated for the
\* registries that hold stake).
C8_VerdictDependsOnMessage ==
    (vpc = "done" /\ HasStake /\ verdict = "true") =>
        \A m2 \in Messages \ {message} :
            verify_signature(operators, aggregated_public_key, threshold_percent,
                             m2, signature_hex, nonsigners) = "false"

\* C9: an honest aggregate signature of the operators that are not declared
\* non-signers is accepted when their stake share meets the threshold and
\* rejected when it is below it.
C9_HonestQuorumDecides ==
    ( /\ vpc = "done"
      /\ AllKnown
      /\ HasStake
      /\ signature_hex =
             HonestSignature(DOMAIN operators \ Named(nonsigners), message) )
    => (verdict = "true" <=>
            100 * StakeOf(operators, DOMAIN operators \ Named(nonsigners))
                >= threshold_percent * StakeOf(operators, DOMAIN operators))

\* the spec's rolling hash: rollingHash := hash(rollingHash || hash(batch)),
\* folded from the left over the batches
RECURSIVE RollingHash(_, _)
RollingHash(h, batches) ==
    IF batches = <<>> THEN h
    ELSE RollingHash(hash(h \o hash(Head(batches))), Tail(batches))

\* C2: the returned rolling hash is the left fold of
\* hash(rollingHash || hash(batch)) over the batches the call consumed,
\* started from the resume hash, or from the empty string when there is none.
C2_ReturnedHashIsFold ==
    \A id \in DOMAIN calls :
        calls[id].pc = "returned" =>
            calls[id].ret_hash =
                RollingHash(unwrap_or_empty(calls[id].chaining_hash), calls[id].ret_res)

\* C4: a call returns only on a response that carries a finalized pointer,
\* right after it consumed a batch, with its index equal to finalized.index.
C4_ReturnsOnlyAtFinalizedIndex ==
    \A id \in DOMAIN calls :
        calls[id].pc = "returned" =>
            /\ calls[id].resp.data
            /\ calls[id].consumed >= 1
            /\ calls[id].resp.finalized.kind = "index"
            /\ calls[id].resp.finalized.hi = 0
            /\ calls[id].resp.finalized.lo = calls[id].index

\* the response in hand carries a finalized pointer behind the call's index
PointerBehind(c) ==
    /\ c.resp.data
    /\ c.resp.finalized.kind = "index"
    /\ c.resp.finalized.hi = 0
    /\ c.resp.finalized.lo < c.index

\* C5: a pull from 0 up to a finality pointer at a split point, resumed with
\* the index and hash it returned up to the end, yields the hash and the
\* batches of one pull from 0 up to the end.
C5_ResumptionMatchesOnePull ==
    \A whole, first, second \in Returned :
        ( /\ calls[whole].app = calls[first].app
          /\ calls[whole].app = calls[second].app
          /\ calls[whole].after = 0 /\ calls[whole].chaining_hash = None
          /\ calls[first].after = 0 /\ calls[first].chaining_hash = None
          /\ calls[second].after = calls[first].index
          /\ calls[second].chaining_hash = Some(calls[first].ret_hash)
          /\ calls[second].index = calls[whole].index )
        => /\ calls[second].ret_hash = calls[whole].ret_hash
           /\ calls[first].ret_res \o calls[second].ret_res = calls[whole].ret_res

\* C6: a call that holds a response whose finalized pointer is behind its
\* index has ended with a fatal error: it is not polling on, and has not
\* returned.
C6_PointerRegressionIsFatal ==
    \A id \in DOMAIN calls :
        PointerBehind(calls[id]) => calls[id].pc \notin {"polling", "returned"}

\* C10: two calls with the same arguments that consumed batch sequences of
\* the same length differing at some position return different hashes.
C10_HashCoversEveryBatch ==
    \A x, y \in Returned :
        ( /\ calls[x].after = calls[y].after
          /\ calls[x].chaining_hash = calls[y].chaining_hash
          /\ Len(calls[x].ret_res) = Len(calls[y].ret_res)
          /\ calls[x].ret_res # calls[y].ret_res )
        => calls[x].ret_hash # calls[y].ret_hash

\* the index a call starts from: the `after` of its first request
StartIndex(c) == IF c.chaining_hash # None THEN c.after ELSE c.after - 1

\* the batches of the node's log with indices StartIndex(c) + 1 .. c.index
ConsumedOf(c) == SubSeq(log[c.app], StartIndex(c) + 2, c.index + 1)

\* C11: a no-data response leaves the call's index (the `after` of its next
\* request), its batches and its result unchanged and the call polling; what a
\* call returns is decided by its arguments and the batches up to its final
\* index, however many no-data responses it met.
C11_NoDataStep ==
    \A id \in DOMAIN calls :
        (calls[id].resp # NoData /\ calls'[id].resp = NoData) =>
            /\ calls'[id].pc = "polling"
            /\ calls'[id].index = calls[id].index
            /\ calls'[id].res = calls[id].res
            /\ calls'[id].ret_hash = calls[id].ret_hash
            /\ calls'[id].ret_res = calls[id].ret_res

C11_ResultIgnoresNoData ==
    \A id \in DOMAIN calls :
        /\ calls[id].res = ConsumedOf(calls[id])
        /\ calls[id].pc = "returned" =>
               /\ calls[id].ret_res = ConsumedOf(calls[id])
               /\ calls[id].ret_hash =
                      unwrap_or_empty(calls[id].chaining_hash)
                          \o hash(log[calls[id].app][calls[id].index + 1])

C11_NoDataChangesNothing ==
    [][C11_NoDataStep]_vars /\ []C11_ResultIgnoresNoData

\* a no-data response met after a batch was consumed
C11_Witness ==
    \E id \in DOMAIN calls :
        /\ calls[id].pc = "polling"
        /\ calls[id].resp = NoData
        /\ Len(calls[id].res) = 1

RECURSIVE Dedup(_)
\* the list with every id after its first occurrence dropped
Dedup(ns) ==
    IF ns = <<>> THEN <<>>
    ELSE LET front == Dedup(SubSeq(ns, 1, Len(ns) - 1))
         IN IF ns[Len(ns)] \in Named(front) THEN front
            ELSE Append(front, ns[Len(ns)])

\* C12: a non-signer list with an id repeated is treated as the list of its
\* distinct ids: the non-signer stake counts each id once and the verdict is
\* the verdict on the de-duplicated list.
C12_DuplicatesAreIgnored ==
    (vpc = "done" /\ AllKnown /\ HasStake) =>
        /\ nonsigners_stake = StakeOf(operators, Named(nonsigners))
        /\ verdict = verify_signature(operators, aggregated_public_key,
                                      threshold_percent, message, signature_hex,
                                      Dedup(nonsigners))

\* C13: when the operators' total stake is zero the quorum percentage is
\* undefined and the call fails with EmptyOperatorSet: it never answers with
\* a boolean.
C13_ZeroTotalStakeFails ==
    (vpc = "done" /\ AllKnown /\ StakeOf(operators, DOMAIN operators) = 0) =>
        verdict \notin {"true", "false"}

RECURSIVE SumInOrder(_, _)
\* identity + keys[order[1]] + keys[order[2]] + ..., added in that order
SumInOrder(keys, order) ==
    IF order = <<>> THEN G2Identity
    ELSE GAdd(SumInOrder(keys, SubSeq(order, 1, Len(order) - 1)),
              keys[order[Len(order)]])

\* the orders in which the operators of S can be enumerated
Enumerations(S) ==
    {o \in [1..Cardinality(S) -> S] : \A i, j \in DOMAIN o : i # j => o[i] # o[j]}

\* the registry with its keys replaced by the points of keys
WithKeys(ops, keys) ==
    [id \in DOMAIN ops |-> [ops[id] EXCEPT !.public_key_g2 = keys[id]]]

\* one registry of each size, the stakes having no part in the aggregation
OneOfEachSize ==
    /\ threshold_percent = 50
    /\ \A id \in DOMAIN operators : operators[id].stake = FullUnit

\* C14: the aggregated public key is the group sum of the operators' G2
\* public keys, seeded with the identity, in whatever order the operators are
\* enumerated; the aggregation gives the same point in every order for every
\* assignment of keys to the operators.
C14_AggregateIsOrderFreeSum ==
    vpc = "idle" =>
        /\ \A order \in Enumerations(DOMAIN operators) :
               aggregated_public_key =
                   SumInOrder([id \in DOMAIN operators |->
                                   operators[id].public_key_g2], order)
        /\ OneOfEachSize =>
               \A keys \in [DOMAIN operators -> 0..(GroupOrder - 1)] :
                   \A order \in Enumerations(DOMAIN operators) :
                       AggregateKeys(WithKeys(operators, keys), DOMAIN operators)
                           = SumInOrder(keys, order)

\* a registry of three or more operators, aggregated
C14_Witness ==
    /\ vpc = "idle"
    /\ Cardinality(DOMAIN operators) >= 3
    /\ OneOfEachSize
    /\ aggregated_public_key = G2Identity

\* a call that ended with the transport's error holds no result
C15_ErrorCarriesNoResult ==
    \A id \in DOMAIN calls :
        calls[id].pc = "error" =>
            (calls[id].ret_hash = "" /\ calls[id].ret_res = <<>>)

\* a call that ended with the error takes no further step: no request follows
\* the failed one and the error is never replaced by a result
C15_ErrorIsFinal ==
    \A id \in DOMAIN calls :
        calls[id].pc = "error" => calls'[id] = calls[id]

\* C15: a transport or I/O failure of a poll request ends get_finalized with
\* that error: the failed request is not retried and no (hash, batches) pair
\* built from the batches consumed so far is returned.
C15_FailurePropagates ==
    []C15_ErrorCarriesNoResult /\ [][C15_ErrorIsFinal]_vars

\* a request that failed after a batch had been consumed
C15_Witness ==
    \E id \in DOMAIN calls :
        calls[id].pc = "error" /\ Len(calls[id].res) >= 1

\* the index the first batch a call consumes is assigned
FirstIndex(c) == IF c.chaining_hash = None THEN c.after ELSE c.after + 1

\* C16: until a batch is consumed the request's `after` is the argument
\* `after` when a resume hash is supplied and `after - 1` when none is; the
\* first batch consumed is the node's batch of index `after` on a fresh start
\* and of index `after + 1` on resume, and is counted as that index.
C16_FirstRequestAndBoundary ==
    \A id \in DOMAIN calls :
        LET c == calls[id] IN
        /\ c.res = <<>> =>
               c.index = IF c.chaining_hash = None THEN c.after - 1 ELSE c.after
        /\ c.res # <<>> =>
               /\ FirstIndex(c) + 1 \in DOMAIN log[c.app]
               /\ c.res[1] = log[c.app][FirstIndex(c) + 1]
               /\ c.index = FirstIndex(c) + Len(c.res) - 1

\* a fresh call and a resumed call, each with its first batch consumed
C16_Witness ==
    \E id \in DOMAIN calls :
        /\ calls[id].chaining_hash # None
        /\ calls[id].after = 0
        /\ Len(calls[id].res) = 1
        /\ calls[id].index = 1

\* C17: what a call returns is a function of its arguments and of the ordered
\* contents of the batches it consumed: two calls started with the same
\* (after, resume hash) that consumed the same batches return the same hash
\* and the same list, in however many responses the batches arrived, and two
\* calls with the same arguments on the same app that stop at the same index
\* return the same pair.
C17_Deterministic ==
    \A a, b \in Returned :
        (calls[a].after = calls[b].after
            /\ calls[a].chaining_hash = calls[b].chaining_hash) =>
            /\ calls[a].res = calls[b].res =>
                   /\ calls[a].ret_hash = calls[b].ret_hash
                   /\ calls[a].ret_res = calls[b].ret_res
            /\ (calls[a].app = calls[b].app /\ calls[a].index = calls[b].index) =>
                   /\ calls[a].ret_hash = calls[b].ret_hash
                   /\ calls[a].ret_res = calls[b].ret_res

\* two runs from the same arguments over the same two batches, one fed both
\* in a single response and the other one batch per response
C17_Witness ==
    \E a, b \in Returned :
        /\ calls[a].after = calls[b].after
        /\ calls[a].chaining_hash = calls[b].chaining_hash
        /\ calls[a].ret_res = calls[b].ret_res
        /\ Len(calls[a].ret_res) = 2
        /\ calls[a].consumed = 2
        /\ calls[b].consumed = 1

\* what a call that runs alone holds: its batches are the log's from its start
\* index to its index, and its result, once returned, is built from them
AsAlone(c) ==
    /\ c.index = StartIndex(c) + Len(c.res)
    /\ c.res = ConsumedOf(c)
    /\ c.pc = "returned" =>
           /\ c.ret_res = c.res
           /\ c.ret_hash = unwrap_or_empty(c.chaining_hash)
                               \o hash(log[c.app][c.index + 1])
    /\ c.pc # "returned" => (c.ret_res = <<>> /\ c.ret_hash = "")

\* a step is one call's: the other call's record is as it was, the call that
\* moved took the step it takes alone on its own record, and the registry is
\* as it was
C18_StepTouchesOneCall ==
    /\ operators' = operators
    /\ aggregated_public_key' = aggregated_public_key
    /\ threshold_percent' = threshold_percent
    /\ \A id \in DOMAIN calls :
           \/ calls'[id] = calls[id]
           \/ /\ \A x \in DOMAIN calls \ {id} : calls'[x] = calls[x]
              /\ calls[id].pc = "polling"
              /\ \/ calls'[id] = [calls[id] EXCEPT !.pc = "error"]
                 \/ \E r \in Responses(calls[id].app, calls[id].index) :
                        calls'[id] = Iteration(calls[id], r)

C18_EachCallAsAlone ==
    /\ \A id \in DOMAIN calls : AsAlone(calls[id])
    /\ operators = get_operators(MainSnapshot)
    /\ threshold_percent = 67

\* C18: two get_finalized calls on one Zellular value, their round trips
\* interleaved in any order, share no mutable state: each call's index, hash
\* and batches, and its result, are those of the call running alone on the
\* same responses, and the registry is unchanged by either.
C18_CallsShareNothing ==
    []C18_EachCallAsAlone /\ [][C18_StepTouchesOneCall]_vars

\* both calls returned, from different starts, with different results
C18_Witness ==
    /\ DOMAIN calls = Concurrent
    /\ calls[1].pc = "returned"
    /\ calls[2].pc = "returned"
    /\ calls[1].app = calls[2].app
    /\ calls[1].after # calls[2].after
    /\ Len(calls[1].ret_res) # Len(calls[2].ret_res)

\* C19: against a node that sends finitely many no-data responses, reports in
\* every data response the same finalized index, at or after the first index
\* to be fetched, and delivers at least one next batch in every data response,
\* a call of get_finalized eventually returns.
C19_EventuallyReturns ==
    (1 \in DOMAIN calls) ~> (1 \in DOMAIN calls /\ calls[1].pc = "returned")

\* C20: in every state of a call the local index is the starting index plus
\* the number of batches appended, and the output is the node's batches from
\* the start to that index, in order, none twice and none skipped; on return
\* the output's length is finalized.index minus the starting index and no
\* batch after the finalized one is in it.
C20_IndexCountsOutput ==
    \A id \in DOMAIN calls :
        LET c == calls[id] IN
        /\ c.index = StartIndex(c) + Len(c.res)
        /\ c.res = ConsumedOf(c)
        /\ c.pc = "returned" =>
               /\ c.ret_res = c.res
               /\ c.resp.finalized.kind = "index"
               /\ Len(c.ret_res) = FinValue(c.resp.finalized) - StartIndex(c)
               /\ c.ret_res = SubSeq(log[c.app], StartIndex(c) + 2,
                                     FinValue(c.resp.finalized) + 1)
====
